---- MODULE Spec2Model ----
(***************************************************************************)
(* Model of the VCC demographic survey application (src/app.py).           *)
(*                                                                         *)
(* The persisted state is the SQLite database: the tables                  *)
(* portfolio_companies, aggregated_responses (tier 1, the counts records)  *)
(* and individual_responses (tier 2, the encrypted responses).  Every      *)
(* request handler opens its own connection (get_db).  Python's sqlite3    *)
(* module opens a transaction implicitly before the first INSERT, UPDATE   *)
(* or DELETE of a connection, and SQLite lets one connection at a time     *)
(* hold the database write lock; a SELECT outside a transaction reads the  *)
(* committed state.  A connection that is dropped without commit rolls its *)
(* transaction back.                                                       *)
(*                                                                         *)
(* The column updated_at (a wall-clock timestamp) is not modelled.         *)
(***************************************************************************)
EXTENDS Integers, Sequences, FiniteSets, TLC

(***************************************************************************)
(* Bounds of the model.                                                    *)
(***************************************************************************)
MaxUnits == 2        \* classifier inputs: counter units spread over a record
MaxResp == 3         \* classifier inputs: largest total_responses drawn
MaxFounders == 4     \* classifier inputs: largest total_founders drawn
MaxKeys == 2         \* aggregation inputs: keys present in the two answer sets
MaxCompanies == 2    \* companies ever added
MaxProcs == 2        \* request handlers running at the same time
MaxSubmits == 2      \* survey submissions ever started
MaxFounderInput == 1 \* largest founder count an administrator enters
MaxCsvRows == 2      \* rows of an uploaded CSV file
MaxExportUnits == 1  \* units spread over the counters of an exported counts record

(***************************************************************************)
(* The counts record (a row of aggregated_responses).                      *)
(***************************************************************************)
GenderCounters == {"gender_woman", "gender_man", "gender_nonbinary",
                   "gender_transgender", "gender_other", "gender_declined"}
RaceCounters == {"race_black", "race_asian", "race_hispanic",
                 "race_native_american", "race_pacific_islander",
                 "race_white", "race_other", "race_declined"}
LgbtqCounters == {"lgbtq_yes", "lgbtq_no", "lgbtq_declined"}
DisabilityCounters == {"disability_yes", "disability_no", "disability_declined"}
VeteranCounters == {"veteran_yes", "veteran_disabled", "veteran_no",
                    "veteran_declined"}
CaResidentCounters == {"ca_resident_yes", "ca_resident_no",
                       "ca_resident_declined"}

AxisCounters == GenderCounters \cup RaceCounters \cup LgbtqCounters
                  \cup DisabilityCounters \cup VeteranCounters
                  \cup CaResidentCounters

CountFields == AxisCounters \cup {"total_responses", "total_declined_all"}

AggFields == CountFields \cup {"company_id", "total_founders",
                               "is_primarily_diverse"}

\* SQL NULL / Python None in the column is_primarily_diverse (1 and 0 are
\* the two determinate values).
None == -1

\* A freshly inserted row: every counter at its column default.
NewAggRow(company_id, total_founders) ==
  [f \in AggFields |->
     IF f = "company_id" THEN company_id
     ELSE IF f = "total_founders" THEN total_founders
     ELSE IF f = "is_primarily_diverse" THEN None
     ELSE 0]

(***************************************************************************)
(* calculate_diverse_status                                                *)
(***************************************************************************)
\* The comparison written with < : a rate of exactly one half passes.
RateAtMostHalfStrict(total_responses, total_founders) ==
  IF total_founders > 0
    THEN 2 * total_responses < total_founders
    ELSE 2 * total_responses > total_founders

\* total_responses / total_founders <= 0.5, the quotient being Python's true
\* division of two integers (total_founders # 0).
RateAtMostHalf(total_responses, total_founders) ==
  IF total_founders > 0
    THEN 2 * total_responses <= total_founders
    ELSE 2 * total_responses >= total_founders

IfPositive(n) == IF n > 0 THEN n ELSE 0

\* The sum without the veteran counters.
TotalDiverseIndicatorsNoVeteran(d) ==
  LET diverse_count == IfPositive(d["gender_woman"])
                         + IfPositive(d["gender_nonbinary"])
                         + IfPositive(d["gender_transgender"])
      race_diverse == d["race_black"] + d["race_asian"] + d["race_hispanic"]
                        + d["race_native_american"]
                        + d["race_pacific_islander"]
      lgbtq_diverse == d["lgbtq_yes"]
      disability_diverse == d["disability_yes"]
  IN diverse_count + race_diverse + lgbtq_diverse + disability_diverse

TotalDiverseIndicators(d) ==
  LET diverse_count == IfPositive(d["gender_woman"])
                         + IfPositive(d["gender_nonbinary"])
                         + IfPositive(d["gender_transgender"])
      race_diverse == d["race_black"] + d["race_asian"] + d["race_hispanic"]
                        + d["race_native_american"]
                        + d["race_pacific_islander"]
      lgbtq_diverse == d["lgbtq_yes"]
      disability_diverse == d["disability_yes"]
      veteran_diverse == d["veteran_yes"] + d["veteran_disabled"]
  IN diverse_count + race_diverse + lgbtq_diverse + disability_diverse
       + veteran_diverse

calculate_diverse_status(aggregated_data) ==
  LET total_founders == aggregated_data["total_founders"]
      total_responses == aggregated_data["total_responses"]
  IN IF total_founders = 0 \/ RateAtMostHalf(total_responses, total_founders)
       THEN None
       ELSE IF TotalDiverseIndicators(aggregated_data) >= total_responses
              THEN 1
              ELSE 0

(***************************************************************************)
(* The submitted JSON document (request.json without the token).           *)
(***************************************************************************)
AnswerKeys == {"decline_all", "gender", "race", "lgbtq", "disability",
               "veteran", "ca_resident"}

\* data.get(key) of a key the document does not carry.
Absent == "<absent>"
\* A value outside the recognized set of its axis.
Unrecognized == "<unrecognized>"
JsonTrue == "<true>"
JsonFalse == "<false>"

KeyValues(k) ==
  CASE k = "decline_all" -> {JsonTrue, JsonFalse}
    [] k = "gender" -> {"woman", "man", "nonbinary", "transgender", "none",
                        "decline", Unrecognized}
    [] k = "race" -> {"black", "asian", "hispanic", "native_american",
                      "pacific_islander", "white", "none", "decline",
                      Unrecognized}
    [] k = "lgbtq" -> {"yes", "no", "decline", Unrecognized}
    [] k = "disability" -> {"yes", "no", "decline", Unrecognized}
    [] k = "veteran" -> {"veteran", "disabled_veteran", "no", "decline",
                         Unrecognized}
    [] k = "ca_resident" -> {"yes", "no", "decline", Unrecognized}

NoAnswers == [k \in AnswerKeys |-> Absent]

PresentKeys(data) == {k \in AnswerKeys : data[k] # Absent}

\* The documents that carry exactly the keys ks.
RECURSIVE AnswersOver(_)
AnswersOver(ks) ==
  IF ks = {} THEN {NoAnswers}
  ELSE LET k == CHOOSE x \in ks : TRUE
       IN {[d EXCEPT ![k] = v] : d \in AnswersOver(ks \ {k}), v \in KeyValues(k)}

\* The documents that carry exactly n keys.
AnswersWith(n) ==
  UNION {AnswersOver(ks) : ks \in {s \in SUBSET AnswerKeys : Cardinality(s) = n}}

\* Python truth value of data.get('decline_all').
Truthy(v) == v \notin {Absent, JsonFalse}

(***************************************************************************)
(* The aggregation step of submit_survey.                                  *)
(***************************************************************************)
Inc(d, f) == [d EXCEPT ![f] = @ + 1]

\* The gender branch with a final else that counts any other value as "other".
GenderStepElseOther(d, gender) ==
  IF gender = "woman" THEN Inc(d, "gender_woman")
  ELSE IF gender = "man" THEN Inc(d, "gender_man")
  ELSE IF gender = "nonbinary" THEN Inc(d, "gender_nonbinary")
  ELSE IF gender = "transgender" THEN Inc(d, "gender_transgender")
  ELSE IF gender = "decline" THEN Inc(d, "gender_declined")
  ELSE IF gender = Absent THEN d
  ELSE Inc(d, "gender_other")

GenderStep(d, gender) ==
  IF gender = "woman" THEN Inc(d, "gender_woman")
  ELSE IF gender = "man" THEN Inc(d, "gender_man")
  ELSE IF gender = "nonbinary" THEN Inc(d, "gender_nonbinary")
  ELSE IF gender = "transgender" THEN Inc(d, "gender_transgender")
  ELSE IF gender = "none" THEN Inc(d, "gender_other")
  ELSE IF gender = "decline" THEN Inc(d, "gender_declined")
  ELSE d

RaceStep(d, race) ==
  IF race = "black" THEN Inc(d, "race_black")
  ELSE IF race = "asian" THEN Inc(d, "race_asian")
  ELSE IF race = "hispanic" THEN Inc(d, "race_hispanic")
  ELSE IF race = "native_american" THEN Inc(d, "race_native_american")
  ELSE IF race = "pacific_islander" THEN Inc(d, "race_pacific_islander")
  ELSE IF race = "white" THEN Inc(d, "race_white")
  ELSE IF race = "none" THEN Inc(d, "race_other")
  ELSE IF race = "decline" THEN Inc(d, "race_declined")
  ELSE d

LgbtqStep(d, lgbtq) ==
  IF lgbtq = "yes" THEN Inc(d, "lgbtq_yes")
  ELSE IF lgbtq = "no" THEN Inc(d, "lgbtq_no")
  ELSE IF lgbtq = "decline" THEN Inc(d, "lgbtq_declined")
  ELSE d

\* The disability branch with a missing answer counted as a decline.
DisabilityStepAbsentDeclines(d, disability) ==
  IF disability = "yes" THEN Inc(d, "disability_yes")
  ELSE IF disability = "no" THEN Inc(d, "disability_no")
  ELSE IF disability \in {"decline", Absent} THEN Inc(d, "disability_declined")
  ELSE d

DisabilityStep(d, disability) ==
  IF disability = "yes" THEN Inc(d, "disability_yes")
  ELSE IF disability = "no" THEN Inc(d, "disability_no")
  ELSE IF disability = "decline" THEN Inc(d, "disability_declined")
  ELSE d

\* The veteran branch with its first two counters exchanged.
VeteranStepSwapped(d, veteran) ==
  IF veteran = "veteran" THEN Inc(d, "veteran_disabled")
  ELSE IF veteran = "disabled_veteran" THEN Inc(d, "veteran_yes")
  ELSE IF veteran = "no" THEN Inc(d, "veteran_no")
  ELSE IF veteran = "decline" THEN Inc(d, "veteran_declined")
  ELSE d

VeteranStep(d, veteran) ==
  IF veteran = "veteran" THEN Inc(d, "veteran_yes")
  ELSE IF veteran = "disabled_veteran" THEN Inc(d, "veteran_disabled")
  ELSE IF veteran = "no" THEN Inc(d, "veteran_no")
  ELSE IF veteran = "decline" THEN Inc(d, "veteran_declined")
  ELSE d

CaResidentStep(d, ca_resident) ==
  IF ca_resident = "yes" THEN Inc(d, "ca_resident_yes")
  ELSE IF ca_resident = "no" THEN Inc(d, "ca_resident_no")
  ELSE IF ca_resident = "decline" THEN Inc(d, "ca_resident_declined")
  ELSE d

\* The axis branch of the aggregation (the else of "if decline_all").
AxisSteps(d, data) ==
  CaResidentStep(
    VeteranStep(
      DisabilityStep(
        LgbtqStep(
          RaceStep(
            GenderStep(d, data["gender"]),
            data["race"]),
          data["lgbtq"]),
        data["disability"]),
      data["veteran"]),
    data["ca_resident"])

\* The aggregation with the axis counters moved whether or not the response
\* declines everything.
ApplySubmissionDeclineCountsAxes(agg_dict, data) ==
  LET counted == Inc(agg_dict, "total_responses")
  IN IF Truthy(data["decline_all"])
       THEN AxisSteps(Inc(counted, "total_declined_all"), data)
       ELSE AxisSteps(counted, data)

\* The aggregation with total_declined_all assigned from total_responses.
ApplySubmissionDeclinedFromTotal(agg_dict, data) ==
  LET counted == Inc(agg_dict, "total_responses")
  IN IF Truthy(data["decline_all"])
       THEN [counted EXCEPT !["total_declined_all"] = counted["total_responses"]]
       ELSE AxisSteps(counted, data)

\* The aggregation with total_responses counted in the axis branch only.
ApplySubmissionDeclineUncounted(agg_dict, data) ==
  IF Truthy(data["decline_all"])
    THEN Inc(agg_dict, "total_declined_all")
    ELSE AxisSteps(Inc(agg_dict, "total_responses"), data)

\* agg_dict after the counts of one response are added.
ApplySubmission(agg_dict, data) ==
  LET counted == Inc(agg_dict, "total_responses")
  IN IF Truthy(data["decline_all"])
       THEN Inc(counted, "total_declined_all")
       ELSE AxisSteps(counted, data)

\* The write-back with the classification computed before the counts move.
UpdatedCountsClassifiedBefore(agg_dict, data) ==
  LET counted == ApplySubmission(agg_dict, data)
  IN [counted EXCEPT !["is_primarily_diverse"] =
                        calculate_diverse_status(agg_dict)]

\* agg_dict as submit_survey writes it back: the counts of the response
\* added, then the classification of the result.
UpdatedCounts(agg_dict, data) ==
  LET counted == ApplySubmission(agg_dict, data)
  IN [counted EXCEPT !["is_primarily_diverse"] =
                        calculate_diverse_status(counted)]

(***************************************************************************)
(* The encryption gateway and the ip hash.                                 *)
(***************************************************************************)
\* A serialisation that leaves the decline_all mark out of the stored text.
json_dumpsAnswersOnly(response_data) ==
  {<<k, response_data[k]>> : k \in PresentKeys(response_data) \ {"decline_all"}}

\* json.dumps of the response: the text carries the keys the document has.
json_dumps(response_data) ==
  {<<k, response_data[k]>> : k \in PresentKeys(response_data)}

\* A parse that reads a missing decline_all mark as false.
json_loadsDeclineDefault(text) ==
  [k \in AnswerKeys |->
     IF \E kv \in text : kv[1] = k
       THEN (CHOOSE kv \in text : kv[1] = k)[2]
       ELSE IF k = "decline_all" THEN JsonFalse ELSE Absent]

\* json.loads of the text: the document has the keys the text carries.

json_loads(text) ==
  [k \in AnswerKeys |->
     IF \E kv \in text : kv[1] = k
       THEN (CHOOSE kv \in text : kv[1] = k)[2]
       ELSE Absent]

\* A Fernet token: opaque to whoever does not hold the key.
encrypt_response(response_data) == <<"fernet", json_dumps(response_data)>>

decrypt_response(encrypted_data) == json_loads(encrypted_data[2])

hash_ip(ip) == <<"sha256", ip>>

(***************************************************************************)
(* State.                                                                  *)
(***************************************************************************)
VARIABLES
  portfolio_companies,   \* ids of the rows of portfolio_companies
  next_company_id,       \* the id the next inserted company gets
  company_limit,         \* the number of companies the administrator adds at most
  aggregated_responses,  \* committed rows of aggregated_responses
  individual_responses,  \* committed rows of individual_responses
  write_lock,            \* the handler whose connection holds the write lock
  tx_agg,                \* per handler: aggregated_responses inside its open transaction
  tx_ind,                \* per handler: individual_responses inside its open transaction
  pc,                    \* per handler: the statement it executes next
  l_company,             \* per handler: company_id
  l_data,                \* per handler: data (request.json)
  l_ip,                  \* per handler: request.remote_addr
  l_rows,                \* per handler: the counts row fetched (aggregated)
  l_status,              \* per handler: recalculate_diverse, per fetched row the status to write
  applied,               \* history: per company, the documents of the successful submissions
  submits,               \* history: submissions started
  errors,                \* history: submissions answered with an error (500)
  rejected,              \* history: submissions answered with "Invalid token" (404)
  page,                  \* history: per handler, what company_detail last handed to its template
  cAgg, cResult, cDone,  \* classifier harness: a counts record, its classification
  prior, subA, subB,     \* aggregation harness: a counts record, two documents
  midAB, outAB, midBA, outBA, done,
  tPrior, tData, tIpA, tIpB, \* tier harness: a counts record, one document, two addresses
  tOutA, tOutB, tDone,
  eRow, eOut, eDone      \* export harness: a joined row, the CSV row written for it

dbVars == <<portfolio_companies, next_company_id, company_limit,
            aggregated_responses, individual_responses>>
procVars == <<write_lock, tx_agg, tx_ind, pc, l_company, l_data, l_ip, l_rows,
              l_status>>
histVars == <<applied, submits, errors, rejected, page>>
mainVars == <<dbVars, procVars, histVars>>
classifyVars == <<cAgg, cResult, cDone>>
applyVars == <<prior, subA, subB, midAB, outAB, midBA, outBA, done>>
tierVars == <<tPrior, tData, tIpA, tIpB, tOutA, tOutB, tDone>>
exportVars == <<eRow, eOut, eDone>>
harnessVars == <<classifyVars, applyVars, tierVars, exportVars>>
vars == <<mainVars, harnessVars>>

Procs == 1..MaxProcs
NoProc == 0
CompanyIds == 1..MaxCompanies
NoCompany == 0
\* The survey link token of company c is modelled by c itself; BadToken is a
\* token no company has.
BadToken == 0
Tokens == CompanyIds \cup {BadToken}
Ips == {"198.51.100.1"}

\* The documents the modelled clients submit.
SubmissionPool ==
  { [NoAnswers EXCEPT !["gender"] = "woman", !["race"] = "black",
                      !["lgbtq"] = "yes"],
    [NoAnswers EXCEPT !["decline_all"] = JsonTrue, !["gender"] = "woman"] }

\* total_founders of a row inserted without a value for it.
DefaultTotalFounders == 0

(***************************************************************************)
(* SQL statements on the table aggregated_responses / individual_responses.*)
(***************************************************************************)
\* SELECT * FROM aggregated_responses WHERE company_id = ?
SelectAgg(table, company_id) ==
  SelectSeq(table, LAMBDA r : r["company_id"] = company_id)

\* The UPDATE of submit_survey without its WHERE clause.
UpdateAggEveryRow(table, company_id, agg_dict) ==
  [i \in DOMAIN table |->
     [f \in AggFields |->
        IF f = "company_id" THEN table[i][f] ELSE agg_dict[f]]]

\* UPDATE aggregated_responses SET <every column but id, company_id> WHERE company_id = ?
UpdateAgg(table, company_id, agg_dict) ==
  [i \in DOMAIN table |->
     IF table[i]["company_id"] = company_id
       THEN [f \in AggFields |->
               IF f = "company_id" THEN table[i][f] ELSE agg_dict[f]]
       ELSE table[i]]

\* The column written with a statement that replaces the whole row.
UpdateAggColumnReplacing(table, company_id, column, value) ==
  [i \in DOMAIN table |->
     IF table[i]["company_id"] = company_id
       THEN [NewAggRow(company_id, table[i]["total_founders"])
               EXCEPT ![column] = value]
       ELSE table[i]]

\* UPDATE aggregated_responses SET <column> = ? WHERE company_id = ?
UpdateAggColumn(table, company_id, column, value) ==
  [i \in DOMAIN table |->
     IF table[i]["company_id"] = company_id
       THEN [table[i] EXCEPT ![column] = value]
       ELSE table[i]]

\* DELETE FROM <table> WHERE company_id = ?
DeleteWhere(table, company_id) ==
  SelectSeq(table, LAMBDA r : r["company_id"] # company_id)

\* An individual row that also carries a column of the counts table.
IndividualRowCounted(company_id, data, ip) ==
  [company_id |-> company_id,
   response_data_encrypted |-> encrypt_response(data),
   ip_hash |-> hash_ip(ip),
   total_responses |-> 1]

IndividualRow(company_id, data, ip) ==
  [company_id |-> company_id,
   response_data_encrypted |-> encrypt_response(data),
   ip_hash |-> hash_ip(ip)]

\* The first write statement of a connection opens its transaction, which
\* takes the database write lock: it waits while another connection holds it.
\* A database whose writers do not exclude each other.
WriteLockFreeAlways(lock) == TRUE

WriteLockFree(lock) == lock = NoProc

(***************************************************************************)
(* Initial state: the database as schema.sql creates it.                   *)
(***************************************************************************)
ClassifyIdle ==
  /\ cAgg = NewAggRow(NoCompany, 0)
  /\ cResult = None
  /\ cDone = FALSE

ApplyIdle ==
  /\ prior = NewAggRow(NoCompany, 0)
  /\ subA = NoAnswers
  /\ subB = NoAnswers
  /\ midAB = prior /\ outAB = prior /\ midBA = prior /\ outBA = prior
  /\ done = {}

\* What one submission writes to the two tables.
TierWrites(individual, counts) == [individual |-> individual, counts |-> counts]

TierIdle ==
  /\ tPrior = NewAggRow(NoCompany, 0)
  /\ tData = NoAnswers
  /\ tIpA = "" /\ tIpB = ""
  /\ tOutA = TierWrites(IndividualRow(NoCompany, NoAnswers, ""), tPrior)
  /\ tOutB = TierWrites(IndividualRow(NoCompany, NoAnswers, ""), tPrior)
  /\ tDone = {}

\* No company exported yet.
ExportIdle ==
  /\ eRow = <<>>
  /\ eOut = <<>>
  /\ eDone = FALSE

MainInit(limit) ==
  /\ portfolio_companies = {}
  /\ next_company_id = 1
  /\ company_limit = limit
  /\ aggregated_responses = <<>>
  /\ individual_responses = <<>>
  /\ write_lock = NoProc
  /\ tx_agg = [p \in Procs |-> <<>>]
  /\ tx_ind = [p \in Procs |-> <<>>]
  /\ pc = [p \in Procs |-> "idle"]
  /\ l_company = [p \in Procs |-> NoCompany]
  /\ l_data = [p \in Procs |-> NoAnswers]
  /\ l_ip = [p \in Procs |-> ""]
  /\ l_rows = [p \in Procs |-> <<>>]
  /\ l_status = [p \in Procs |-> <<>>]
  /\ applied = [c \in CompanyIds |-> <<>>]
  /\ submits = 0
  /\ errors = 0
  /\ rejected = 0
  /\ page = [p \in Procs |-> <<>>]

\* One company, MaxProcs handlers.
Init == MainInit(1) /\ ClassifyIdle /\ ApplyIdle /\ TierIdle /\ ExportIdle

\* MaxCompanies companies, MaxProcs handlers.
InitCompanies ==
  MainInit(MaxCompanies) /\ ClassifyIdle /\ ApplyIdle /\ TierIdle /\ ExportIdle

\* A handler returns: its connection and its locals are gone.
Return(p) ==
  /\ pc' = [pc EXCEPT ![p] = "idle"]
  /\ l_company' = [l_company EXCEPT ![p] = NoCompany]
  /\ l_data' = [l_data EXCEPT ![p] = NoAnswers]
  /\ l_ip' = [l_ip EXCEPT ![p] = ""]
  /\ l_rows' = [l_rows EXCEPT ![p] = <<>>]
  /\ l_status' = [l_status EXCEPT ![p] = <<>>]
  /\ tx_agg' = [tx_agg EXCEPT ![p] = <<>>]
  /\ tx_ind' = [tx_ind EXCEPT ![p] = <<>>]

(***************************************************************************)
(* add_company                                                             *)
(***************************************************************************)
\* cursor.lastrowid of the INSERT INTO portfolio_companies: the id is the
\* company's unique identifier, taken here as never given twice.
lastrowid == next_company_id

add_company(total_founders) ==
  /\ WriteLockFree(write_lock)
  /\ lastrowid <= company_limit
  /\ portfolio_companies' = portfolio_companies \cup {lastrowid}
  /\ next_company_id' = lastrowid + 1
  /\ aggregated_responses' =
       Append(aggregated_responses, NewAggRow(lastrowid, total_founders))
  /\ UNCHANGED <<company_limit, individual_responses, write_lock, tx_agg,
                 tx_ind, pc,
                 l_company, l_data, l_ip, l_rows, l_status, histVars>>
  /\ UNCHANGED harnessVars

(***************************************************************************)
(* bulk_upload                                                             *)
(***************************************************************************)
\* A row of the uploaded CSV file: its total_founders cell, read by int().
CsvRow(total_founders) == [parses |-> "yes", total_founders |-> total_founders]
\* A row without company_name or investment_year.
SkipRow == [parses |-> "skipped", total_founders |-> 0]
\* A row whose total_founders (or investment_year) is not an integer.
BadRow == [parses |-> "no", total_founders |-> 0]
CsvRows == {CsvRow(n) : n \in 0..MaxFounderInput} \cup {SkipRow, BadRow}

\* The files of at most n rows.
CsvFiles(n) == UNION {[1..k -> CsvRows] : k \in 0..n}

\* The counts rows the file creates, the first of them for company first_id.
BulkRows(first_id, kept) ==
  [i \in 1..Len(kept) |->
     NewAggRow(first_id + i - 1, kept[i].total_founders)]

\* Lines 468-507: one transaction for the whole file; a row that does not
\* parse raises, and nothing of the file is committed.
bulk_upload(rows) ==
  /\ WriteLockFree(write_lock)
  /\ LET kept == SelectSeq(rows, LAMBDA r : r # SkipRow)
         raised == \E i \in DOMAIN kept : kept[i] = BadRow
         created_count == Len(kept)
     IN /\ next_company_id + created_count - 1 <= company_limit
        /\ IF raised
             THEN UNCHANGED <<portfolio_companies, next_company_id,
                              aggregated_responses>>
             ELSE /\ portfolio_companies' =
                       portfolio_companies
                         \cup (next_company_id..(next_company_id + created_count - 1))
                  /\ next_company_id' = next_company_id + created_count
                  /\ aggregated_responses' =
                       aggregated_responses \o BulkRows(next_company_id, kept)
  /\ UNCHANGED <<company_limit, individual_responses, write_lock, tx_agg,
                 tx_ind, pc, l_company, l_data, l_ip, l_rows, l_status,
                 histVars>>
  /\ UNCHANGED harnessVars

(***************************************************************************)
(* submit_survey                                                           *)
(***************************************************************************)
\* submit_survey taking the token for the company without looking it up.
SubmitResolveUnchecked(p, token, data, ip) ==
  /\ pc[p] = "idle"
  /\ submits < MaxSubmits
  /\ submits' = submits + 1
  /\ pc' = [pc EXCEPT ![p] = "s_insert"]
  /\ l_company' = [l_company EXCEPT ![p] = token]
  /\ l_data' = [l_data EXCEPT ![p] = data]
  /\ l_ip' = [l_ip EXCEPT ![p] = ip]
  /\ UNCHANGED <<dbVars, write_lock, tx_agg, tx_ind, l_rows, l_status, applied,
                 errors, rejected, page>>
  /\ UNCHANGED harnessVars

\* Lines 152-171: the company is looked up by its token, outside any
\* transaction.
SubmitResolve(p, token, data, ip) ==
  /\ pc[p] = "idle"
  /\ submits < MaxSubmits
  /\ submits' = submits + 1
  /\ IF token \in portfolio_companies
       THEN /\ pc' = [pc EXCEPT ![p] = "s_insert"]
            /\ l_company' = [l_company EXCEPT ![p] = token]
            /\ l_data' = [l_data EXCEPT ![p] = data]
            /\ l_ip' = [l_ip EXCEPT ![p] = ip]
            /\ UNCHANGED rejected
       ELSE /\ rejected' = rejected + 1
            /\ UNCHANGED <<pc, l_company, l_data, l_ip>>
  /\ UNCHANGED <<dbVars, write_lock, tx_agg, tx_ind, l_rows, l_status, applied,
                 errors, page>>
  /\ UNCHANGED harnessVars

\* Lines 174-180: the INSERT opens the transaction of this connection.
SubmitInsert(p) ==
  /\ pc[p] = "s_insert"
  /\ WriteLockFree(write_lock)
  /\ write_lock' = p
  /\ tx_ind' = [tx_ind EXCEPT ![p] =
                  Append(individual_responses,
                         IndividualRow(l_company[p], l_data[p], l_ip[p]))]
  /\ tx_agg' = [tx_agg EXCEPT ![p] = aggregated_responses]
  /\ pc' = [pc EXCEPT ![p] = "s_read"]
  /\ UNCHANGED <<dbVars, l_company, l_data, l_ip, l_rows, l_status, histVars>>
  /\ UNCHANGED harnessVars

\* submit_survey without the test "if not aggregated": a counts row is
\* inserted on every submission.
SubmitReadAlwaysCreates(p) ==
  /\ pc[p] = "s_read"
  /\ l_rows' = [l_rows EXCEPT ![p] = SelectAgg(tx_agg[p], l_company[p])]
  /\ pc' = [pc EXCEPT ![p] = "s_create"]
  /\ UNCHANGED <<dbVars, write_lock, tx_agg, tx_ind, l_company, l_data, l_ip,
                 l_status, histVars>>
  /\ UNCHANGED harnessVars

\* Lines 183-186.
SubmitRead(p) ==
  /\ pc[p] = "s_read"
  /\ l_rows' = [l_rows EXCEPT ![p] = SelectAgg(tx_agg[p], l_company[p])]
  /\ pc' = [pc EXCEPT ![p] =
              IF SelectAgg(tx_agg[p], l_company[p]) = <<>>
                THEN "s_create" ELSE "s_update"]
  /\ UNCHANGED <<dbVars, write_lock, tx_agg, tx_ind, l_company, l_data, l_ip,
                 l_status, histVars>>
  /\ UNCHANGED harnessVars

\* Lines 188-197: no counts row yet, one is created and read back.
SubmitCreate(p) ==
  /\ pc[p] = "s_create"
  /\ LET created == Append(tx_agg[p],
                           NewAggRow(l_company[p], DefaultTotalFounders))
     IN /\ tx_agg' = [tx_agg EXCEPT ![p] = created]
        /\ l_rows' = [l_rows EXCEPT ![p] = SelectAgg(created, l_company[p])]
  /\ pc' = [pc EXCEPT ![p] = "s_update"]
  /\ UNCHANGED <<dbVars, write_lock, tx_ind, l_company, l_data, l_ip,
                 l_status, histVars>>
  /\ UNCHANGED harnessVars

\* Lines 199-293: the counts are updated in agg_dict and written back.
SubmitUpdate(p) ==
  /\ pc[p] = "s_update"
  /\ tx_agg' = [tx_agg EXCEPT ![p] =
                  UpdateAgg(tx_agg[p], l_company[p],
                            UpdatedCounts(Head(l_rows[p]), l_data[p]))]
  /\ pc' = [pc EXCEPT ![p] = "s_commit"]
  /\ UNCHANGED <<dbVars, write_lock, tx_ind, l_company, l_data, l_ip, l_rows,
                 l_status, histVars>>
  /\ UNCHANGED harnessVars

\* Lines 295-298: commit, close, success.
SubmitCommit(p) ==
  /\ pc[p] = "s_commit"
  /\ aggregated_responses' = tx_agg[p]
  /\ individual_responses' = tx_ind[p]
  /\ write_lock' = IF write_lock = p THEN NoProc ELSE write_lock
  /\ applied' = [applied EXCEPT ![l_company[p]] = Append(@, l_data[p])]
  /\ Return(p)
  /\ UNCHANGED <<portfolio_companies, next_company_id, company_limit, submits,
                 errors, rejected, page>>
  /\ UNCHANGED harnessVars

\* What a failed submission leaves in the database: its connection is
\* dropped without commit (line 300-302), the transaction is rolled back.
\* A failure that leaves the statements executed so far in the database.
RolledBackKeepsInsert(committed, in_transaction) ==
  IF in_transaction = <<>> THEN committed ELSE in_transaction

RolledBack(committed, in_transaction) == committed

\* Lines 300-302: a statement of the transaction (or the commit) raises.
SubmitFail(p) ==
  /\ pc[p] \in {"s_insert", "s_read", "s_create", "s_update", "s_commit"}
  /\ aggregated_responses' = RolledBack(aggregated_responses, tx_agg[p])
  /\ individual_responses' = RolledBack(individual_responses, tx_ind[p])
  /\ write_lock' = IF write_lock = p THEN NoProc ELSE write_lock
  /\ errors' = errors + 1
  /\ Return(p)
  /\ UNCHANGED <<portfolio_companies, next_company_id, company_limit, applied,
                 submits, rejected, page>>
  /\ UNCHANGED harnessVars

(***************************************************************************)
(* update_founders, delete_company: one transaction each, opened by their  *)
(* first statement (an UPDATE, a DELETE).                                  *)
(***************************************************************************)
\* update_founders without its second statement: total_founders is written,
\* the classification is left as stored.
update_foundersKeepsStatus(company_id, form_value) ==
  /\ WriteLockFree(write_lock)
  /\ LET total_founders == IF form_value < 1 THEN 1 ELSE form_value
     IN aggregated_responses' =
          UpdateAggColumn(aggregated_responses, company_id,
                          "total_founders", total_founders)
  /\ UNCHANGED <<portfolio_companies, next_company_id, company_limit, individual_responses,
                 write_lock, tx_agg, tx_ind, pc, l_company, l_data, l_ip,
                 l_rows, l_status, histVars>>
  /\ UNCHANGED harnessVars

update_founders(company_id, form_value) ==
  /\ WriteLockFree(write_lock)
  /\ LET total_founders == IF form_value < 1 THEN 1 ELSE form_value
         updated == UpdateAggColumn(aggregated_responses, company_id,
                                    "total_founders", total_founders)
         aggregated == SelectAgg(updated, company_id)
     IN aggregated_responses' =
          IF aggregated # <<>>
            THEN LET agg_dict == [Head(aggregated) EXCEPT
                                    !["total_founders"] = total_founders]
                 IN UpdateAggColumn(updated, company_id, "is_primarily_diverse",
                                    calculate_diverse_status(agg_dict))
            ELSE updated
  /\ UNCHANGED <<portfolio_companies, next_company_id, company_limit, individual_responses,
                 write_lock, tx_agg, tx_ind, pc, l_company, l_data, l_ip,
                 l_rows, l_status, histVars>>
  /\ UNCHANGED harnessVars

\* delete_company without the DELETE of line 356.
delete_companyKeepsResponses(company_id) ==
  /\ WriteLockFree(write_lock)
  /\ aggregated_responses' = DeleteWhere(aggregated_responses, company_id)
  /\ portfolio_companies' = portfolio_companies \ {company_id}
  /\ applied' = [applied EXCEPT ![company_id] = <<>>]
  /\ UNCHANGED <<next_company_id, company_limit, individual_responses,
                 write_lock, tx_agg, tx_ind, pc, l_company,
                 l_data, l_ip, l_rows, l_status, submits, errors, rejected,
                 page>>
  /\ UNCHANGED harnessVars

\* Lines 355-359: the three DELETEs run in one transaction of the handler's
\* connection (the first takes the write lock) and are committed together.

delete_company(company_id) ==
  /\ WriteLockFree(write_lock)
  /\ individual_responses' = DeleteWhere(individual_responses, company_id)
  /\ aggregated_responses' = DeleteWhere(aggregated_responses, company_id)
  /\ portfolio_companies' = portfolio_companies \ {company_id}
  /\ applied' = [applied EXCEPT ![company_id] = <<>>]
  /\ UNCHANGED <<next_company_id, company_limit, write_lock, tx_agg, tx_ind,
                 pc, l_company,
                 l_data, l_ip, l_rows, l_status, submits, errors, rejected,
                 page>>
  /\ UNCHANGED harnessVars

(***************************************************************************)
(* company_detail: three SELECTs on one connection, none inside a          *)
(* transaction (the handler writes nothing), so each reads the state       *)
(* committed when it runs.                                                 *)
(***************************************************************************)
\* SELECT COUNT(*) FROM individual_responses WHERE company_id = ?
CountIndividual(table, company_id) ==
  Len(SelectSeq(table, LAMBDA r : r["company_id"] = company_id))

\* The arguments of render_template (lines 347-350).
CompanyPage(aggregated, response_count) ==
  [aggregated |-> aggregated, response_count |-> response_count]

\* Lines 325-332: the company row is read; an unknown id is answered 404.
DetailCompany(p, company_id) ==
  /\ pc[p] = "idle"
  /\ IF company_id \in portfolio_companies
       THEN /\ pc' = [pc EXCEPT ![p] = "d_aggregated"]
            /\ l_company' = [l_company EXCEPT ![p] = company_id]
       ELSE UNCHANGED <<pc, l_company>>
  /\ UNCHANGED <<dbVars, write_lock, tx_agg, tx_ind, l_data, l_ip, l_rows,
                 l_status, histVars>>
  /\ UNCHANGED harnessVars

\* Lines 334-337.
DetailAggregated(p) ==
  /\ pc[p] = "d_aggregated"
  /\ l_rows' = [l_rows EXCEPT ![p] = SelectAgg(aggregated_responses, l_company[p])]
  /\ pc' = [pc EXCEPT ![p] = "d_count"]
  /\ UNCHANGED <<dbVars, write_lock, tx_agg, tx_ind, l_company, l_data, l_ip,
                 l_status, histVars>>
  /\ UNCHANGED harnessVars

\* Lines 339-350: the responses are counted and the page is rendered.
DetailCount(p) ==
  /\ pc[p] = "d_count"
  /\ page' = [page EXCEPT ![p] =
                <<CompanyPage(l_rows[p],
                              CountIndividual(individual_responses,
                                              l_company[p]))>>]
  /\ Return(p)
  /\ UNCHANGED <<dbVars, write_lock, applied, submits, errors, rejected>>
  /\ UNCHANGED harnessVars

(***************************************************************************)
(* recalculate_diverse                                                     *)
(***************************************************************************)
\* Line 117 and the statuses of lines 120-121: every counts row is fetched,
\* outside any transaction; the status written for a row is a function of the
\* row as fetched, so it is taken here, with the fetch.
RecalcRead(p) ==
  /\ pc[p] = "idle"
  /\ l_status' = [l_status EXCEPT ![p] =
                    [i \in DOMAIN aggregated_responses |->
                       [company_id |-> aggregated_responses[i]["company_id"],
                        diverse_status |->
                          calculate_diverse_status(aggregated_responses[i])]]]
  /\ pc' = [pc EXCEPT ![p] = "r_write"]
  /\ UNCHANGED <<dbVars, write_lock, tx_agg, tx_ind, l_company, l_data, l_ip,
                 l_rows, histVars>>
  /\ UNCHANGED harnessVars

\* The UPDATEs of recalculate_diverse written as statements that replace the
\* whole row.
RECURSIVE RecalcUpdatesReplacing(_, _)
RecalcUpdatesReplacing(table, statuses) ==
  IF statuses = <<>> THEN table
  ELSE RecalcUpdatesReplacing(
         UpdateAggColumnReplacing(table, Head(statuses).company_id,
                                  "is_primarily_diverse",
                                  Head(statuses).diverse_status),
         Tail(statuses))

\* Lines 122-125 on the table: one UPDATE per fetched row, in order.
RECURSIVE RecalcUpdates(_, _)
RecalcUpdates(table, statuses) ==
  IF statuses = <<>> THEN table
  ELSE RecalcUpdates(
         UpdateAggColumn(table, Head(statuses).company_id,
                         "is_primarily_diverse", Head(statuses).diverse_status),
         Tail(statuses))

\* Lines 119-129: the UPDATEs (the first opens the transaction) and the commit.
RecalcWrite(p) ==
  /\ pc[p] = "r_write"
  /\ l_status[p] = <<>> \/ WriteLockFree(write_lock)
  /\ aggregated_responses' = RecalcUpdates(aggregated_responses, l_status[p])
  /\ Return(p)
  /\ UNCHANGED <<portfolio_companies, next_company_id, company_limit, individual_responses,
                 write_lock, histVars>>
  /\ UNCHANGED harnessVars

(***************************************************************************)
(* The application.                                                        *)
(***************************************************************************)
Next ==
  \/ \E n \in 0..MaxFounderInput : add_company(n)
  \/ \E rows \in CsvFiles(MaxCsvRows) : bulk_upload(rows)
  \/ \E c \in CompanyIds, n \in 0..MaxFounderInput : update_founders(c, n)
  \/ \E c \in CompanyIds : delete_company(c)
  \/ \E p \in Procs :
       \/ \E t \in Tokens, d \in SubmissionPool, ip \in Ips :
            SubmitResolve(p, t, d, ip)
       \/ SubmitInsert(p)
       \/ SubmitRead(p)
       \/ SubmitCreate(p)
       \/ SubmitUpdate(p)
       \/ SubmitCommit(p)
       \/ SubmitFail(p)
       \/ RecalcRead(p)
       \/ RecalcWrite(p)

Spec == Init /\ [][Next]_vars

SpecCompanies == InitCompanies /\ [][Next]_vars

(***************************************************************************)
(* Company pages opened while founders submit: the administrator adds and  *)
(* deletes the company and opens its page, the founders submit.            *)
(***************************************************************************)
NextDetail ==
  \/ \E n \in 0..MaxFounderInput : add_company(n)
  \/ \E c \in CompanyIds : delete_company(c)
  \/ \E p \in Procs :
       \/ \E t \in Tokens, d \in SubmissionPool, ip \in Ips :
            SubmitResolve(p, t, d, ip)
       \/ SubmitInsert(p)
       \/ SubmitRead(p)
       \/ SubmitCreate(p)
       \/ SubmitUpdate(p)
       \/ SubmitCommit(p)
       \/ SubmitFail(p)
       \/ \E c \in CompanyIds : DetailCompany(p, c)
       \/ DetailAggregated(p)
       \/ DetailCount(p)

SpecDetail == Init /\ [][NextDetail]_vars

(***************************************************************************)
(* Two companies, uploaded together with one founder each, and the survey  *)
(* submissions of their founders: no administrator acts meanwhile, so      *)
(* every submission finds the counts row of its company.                   *)
(***************************************************************************)
PairUpload == <<CsvRow(1), CsvRow(1)>>

InitPair ==
  /\ portfolio_companies = 1..Len(PairUpload)
  /\ next_company_id = Len(PairUpload) + 1
  /\ company_limit = Len(PairUpload)
  /\ aggregated_responses = BulkRows(1, PairUpload)
  /\ individual_responses = <<>>
  /\ write_lock = NoProc
  /\ tx_agg = [p \in Procs |-> <<>>]
  /\ tx_ind = [p \in Procs |-> <<>>]
  /\ pc = [p \in Procs |-> "idle"]
  /\ l_company = [p \in Procs |-> NoCompany]
  /\ l_data = [p \in Procs |-> NoAnswers]
  /\ l_ip = [p \in Procs |-> ""]
  /\ l_rows = [p \in Procs |-> <<>>]
  /\ l_status = [p \in Procs |-> <<>>]
  /\ applied = [c \in CompanyIds |-> <<>>]
  /\ submits = 0
  /\ errors = 0
  /\ rejected = 0
  /\ page = [p \in Procs |-> <<>>]
  /\ ClassifyIdle /\ ApplyIdle /\ TierIdle /\ ExportIdle

NextPair ==
  \E p \in Procs :
    \/ \E t \in Tokens, d \in SubmissionPool, ip \in Ips :
         SubmitResolve(p, t, d, ip)
    \/ SubmitInsert(p)
    \/ SubmitRead(p)
    \/ SubmitUpdate(p)
    \/ SubmitCommit(p)
    \/ SubmitFail(p)

SpecPair == InitPair /\ [][NextPair]_vars

(***************************************************************************)
(* The same two companies with their administrator: besides the survey     *)
(* submissions, the founder count of a company is edited and a company is  *)
(* deleted, so a submission may find its company's rows gone.              *)
(***************************************************************************)
NextPairAdmin ==
  \/ \E c \in CompanyIds, n \in 0..MaxFounderInput : update_founders(c, n)
  \/ \E c \in CompanyIds : delete_company(c)
  \/ \E p \in Procs :
       \/ \E t \in Tokens, d \in SubmissionPool, ip \in Ips :
            SubmitResolve(p, t, d, ip)
       \/ SubmitInsert(p)
       \/ SubmitRead(p)
       \/ SubmitCreate(p)
       \/ SubmitUpdate(p)
       \/ SubmitCommit(p)
       \/ SubmitFail(p)

SpecPairAdmin == InitPair /\ [][NextPairAdmin]_vars

(***************************************************************************)
(* The classifier on its own: calculate_diverse_status applied to a counts *)
(* record drawn from a bounded set.                                        *)
(***************************************************************************)
\* The counts records with at most n units spread over the axis counters.
RECURSIVE Spread(_)
Spread(n) ==
  IF n = 0 THEN {NewAggRow(NoCompany, 0)}
  ELSE LET less == Spread(n - 1)
       IN less \cup {Inc(d, f) : d \in less, f \in AxisCounters}

ClassifyInit ==
  /\ cAgg \in {[d EXCEPT !["total_responses"] = r, !["total_founders"] = f] :
                 d \in Spread(MaxUnits), r \in 0..MaxResp, f \in (-1)..MaxFounders}
  /\ cResult = None
  /\ cDone = FALSE

Classify ==
  /\ ~cDone
  /\ cResult' = calculate_diverse_status(cAgg)
  /\ cDone' = TRUE
  /\ UNCHANGED <<cAgg, mainVars, applyVars, tierVars, exportVars>>

InitClassify ==
  MainInit(1) /\ ApplyIdle /\ TierIdle /\ ExportIdle /\ ClassifyInit

NextClassify == Classify

SpecClassify == InitClassify /\ [][NextClassify]_vars

(***************************************************************************)
(* The aggregation step on its own: applied to a counts record and two     *)
(* documents A and B, in both orders.                                      *)
(***************************************************************************)
\* A counts record with every counter at 1: eight responses that answered
\* every axis, each race category once, and one that declined everything.
BusyRow ==
  [f \in AggFields |->
     IF f = "company_id" THEN 1
     ELSE IF f = "total_founders" THEN 9
     ELSE IF f = "total_responses" THEN 9
     ELSE IF f = "is_primarily_diverse" THEN 1
     ELSE 1]

Priors == {NewAggRow(1, 1), BusyRow}

ApplyInit ==
  /\ prior \in Priors
  /\ \E n \in 0..MaxKeys : \E m \in 0..(MaxKeys - n) :
       /\ subA \in AnswersWith(n)
       /\ subB \in AnswersWith(m)
  /\ midAB = prior /\ outAB = prior /\ midBA = prior /\ outBA = prior
  /\ done = {}

ApplyAB ==
  /\ "AB" \notin done
  /\ midAB' = ApplySubmission(prior, subA)
  /\ outAB' = ApplySubmission(ApplySubmission(prior, subA), subB)
  /\ done' = done \cup {"AB"}
  /\ UNCHANGED <<prior, subA, subB, midBA, outBA, mainVars, classifyVars,
                 tierVars, exportVars>>

ApplyBA ==
  /\ "BA" \notin done
  /\ midBA' = ApplySubmission(prior, subB)
  /\ outBA' = ApplySubmission(ApplySubmission(prior, subB), subA)
  /\ done' = done \cup {"BA"}
  /\ UNCHANGED <<prior, subA, subB, midAB, outAB, mainVars, classifyVars,
                 tierVars, exportVars>>

InitApply ==
  MainInit(1) /\ ClassifyIdle /\ TierIdle /\ ExportIdle /\ ApplyInit

NextApply == ApplyAB \/ ApplyBA

SpecApply == InitApply /\ [][NextApply]_vars

(***************************************************************************)
(* The two tier writes of submit_survey on their own: the same document    *)
(* submitted from two addresses, A and B, against the same counts record.  *)
(***************************************************************************)
TierIps == {"198.51.100.1", "203.0.113.7"}

TierInit ==
  /\ tPrior \in Priors
  /\ \E n \in 0..MaxKeys : tData \in AnswersWith(n)
  /\ tIpA \in TierIps
  /\ tIpB \in TierIps
  /\ tOutA = TierWrites(IndividualRow(NoCompany, NoAnswers, ""), tPrior)
  /\ tOutB = TierWrites(IndividualRow(NoCompany, NoAnswers, ""), tPrior)
  /\ tDone = {}

\* Lines 173-180 (the individual row) and 199-293 (the counts row written back).
SubmitWrites(agg_dict, data, ip) ==
  TierWrites(IndividualRow(agg_dict["company_id"], data, ip),
             Head(UpdateAgg(<<agg_dict>>, agg_dict["company_id"],
                            UpdatedCounts(agg_dict, data))))

TierWriteA ==
  /\ "A" \notin tDone
  /\ tOutA' = SubmitWrites(tPrior, tData, tIpA)
  /\ tDone' = tDone \cup {"A"}
  /\ UNCHANGED <<tPrior, tData, tIpA, tIpB, tOutB, mainVars, classifyVars,
                 applyVars, exportVars>>

TierWriteB ==
  /\ "B" \notin tDone
  /\ tOutB' = SubmitWrites(tPrior, tData, tIpB)
  /\ tDone' = tDone \cup {"B"}
  /\ UNCHANGED <<tPrior, tData, tIpA, tIpB, tOutA, mainVars, classifyVars,
                 applyVars, exportVars>>

InitTiers ==
  MainInit(1) /\ ClassifyIdle /\ ApplyIdle /\ ExportIdle /\ TierInit

NextTiers == TierWriteA \/ TierWriteB

SpecTiers == InitTiers /\ [][NextTiers]_vars

(***************************************************************************)
(* export_dfpi_report on its own: the CSV row written for one row of the   *)
(* query, a company joined with its counts record (LEFT JOIN: every ar     *)
(* column is NULL for a company without one).  The joined row is the       *)
(* sequence of the company's counts records, empty or of one record; the   *)
(* company_name and investment_year cells are copied as they are.          *)
(***************************************************************************)
\* A float, kept as the exact ratio it approximates (a negative den with
\* num = 0 is the float -0.0).
Ratio(num, den) == [num |-> num, den |-> den]

Abs(n) == IF n < 0 THEN -n ELSE n

\* Lines 567-570.
response_rate(company) ==
  IF company # <<>> /\ company[1]["total_founders"] # 0
    THEN Ratio(company[1]["total_responses"] * 100, company[1]["total_founders"])
    ELSE Ratio(0, 1)

\* n / d rounded to an integer, a tie to the even neighbour.
RoundHalfEven(n, d) ==
  LET q == n \div d
      r == n % d
  IN IF 2 * r < d THEN q
     ELSE IF 2 * r > d THEN q + 1
     ELSE IF q % 2 = 0 THEN q ELSE q + 1

\* The text of a number of tenths: its digits with one after the point.
TenthsText(negative, tenths) ==
  (IF negative THEN "-" ELSE "")
    \o ToString(tenths \div 10) \o "." \o ToString(tenths % 10)

\* A format that cuts the digits after the first decimal off.
FormatOneDecimalTruncated(x) ==
  TenthsText((x.num < 0) # (x.den < 0), (10 * Abs(x.num)) \div Abs(x.den))

\* f"{response_rate:.1f}" (line 577): the sign, then the magnitude rounded to
\* one decimal.
FormatOneDecimal(x) ==
  TenthsText((x.num < 0) # (x.den < 0),
             RoundHalfEven(10 * Abs(x.num), Abs(x.den)))

\* company[column] or 0
OrZero(company, column) ==
  IF company = <<>> THEN 0 ELSE company[1][column]

ExportCounters ==
  {"gender_woman", "gender_man", "gender_nonbinary", "gender_transgender",
   "race_black", "race_asian", "race_hispanic", "race_native_american",
   "race_pacific_islander", "race_white", "lgbtq_yes", "disability_yes",
   "ca_resident_yes"}

\* Line 593.
PrimarilyDiverseText(company) ==
  IF company = <<>> THEN "Insufficient Data"
  ELSE IF company[1]["is_primarily_diverse"] = None THEN "Insufficient Data"
  ELSE IF company[1]["is_primarily_diverse"] # 0 THEN "Yes"
  ELSE "No"

\* Lines 572-594: the cells written for one company.
DfpiRow(company) ==
  [total_founders |-> OrZero(company, "total_founders"),
   total_responses |-> OrZero(company, "total_responses"),
   response_rate |-> FormatOneDecimal(response_rate(company)),
   counters |-> [f \in ExportCounters |-> OrZero(company, f)],
   veteran |-> OrZero(company, "veteran_yes") + OrZero(company, "veteran_disabled"),
   primarily_diverse |-> PrimarilyDiverseText(company)]

\* The rows the query returns: a company without counts record, or one whose
\* counts record a sequence of submissions and founder edits left behind.
ExportInit ==
  /\ eRow \in {<<>>} \cup
       {<<[d EXCEPT !["total_responses"] = r, !["total_founders"] = f,
                    !["is_primarily_diverse"] = s]>> :
          d \in Spread(MaxExportUnits), r \in 0..MaxResp,
          f \in (-1)..MaxFounders, s \in {None, 0, 1}}
  /\ eOut = <<>>
  /\ eDone = FALSE

ExportRow ==
  /\ ~eDone
  /\ eOut' = <<DfpiRow(eRow)>>
  /\ eDone' = TRUE
  /\ UNCHANGED <<eRow, mainVars, classifyVars, applyVars, tierVars>>

InitExport == MainInit(1) /\ ClassifyIdle /\ ApplyIdle /\ TierIdle /\ ExportInit

NextExport == ExportRow

SpecExport == InitExport /\ [][NextExport]_vars

(***************************************************************************)
(* The specification's reading of the counts, stated on its own terms.     *)
(***************************************************************************)
Axes == {"gender", "race", "lgbtq", "disability", "veteran", "ca_resident"}

CountersOfAxis(axis) ==
  CASE axis = "gender" -> GenderCounters
    [] axis = "race" -> RaceCounters
    [] axis = "lgbtq" -> LgbtqCounters
    [] axis = "disability" -> DisabilityCounters
    [] axis = "veteran" -> VeteranCounters
    [] axis = "ca_resident" -> CaResidentCounters

\* <<axis, submitted category, the counter that stands for it>>
CategoryCounter ==
  { <<"gender", "woman", "gender_woman">>,
    <<"gender", "man", "gender_man">>,
    <<"gender", "nonbinary", "gender_nonbinary">>,
    <<"gender", "transgender", "gender_transgender">>,
    <<"gender", "none", "gender_other">>,
    <<"gender", "decline", "gender_declined">>,
    <<"race", "black", "race_black">>,
    <<"race", "asian", "race_asian">>,
    <<"race", "hispanic", "race_hispanic">>,
    <<"race", "native_american", "race_native_american">>,
    <<"race", "pacific_islander", "race_pacific_islander">>,
    <<"race", "white", "race_white">>,
    <<"race", "none", "race_other">>,
    <<"race", "decline", "race_declined">>,
    <<"lgbtq", "yes", "lgbtq_yes">>,
    <<"lgbtq", "no", "lgbtq_no">>,
    <<"lgbtq", "decline", "lgbtq_declined">>,
    <<"disability", "yes", "disability_yes">>,
    <<"disability", "no", "disability_no">>,
    <<"disability", "decline", "disability_declined">>,
    <<"veteran", "veteran", "veteran_yes">>,
    <<"veteran", "disabled_veteran", "veteran_disabled">>,
    <<"veteran", "no", "veteran_no">>,
    <<"veteran", "decline", "veteran_declined">>,
    <<"ca_resident", "yes", "ca_resident_yes">>,
    <<"ca_resident", "no", "ca_resident_no">>,
    <<"ca_resident", "decline", "ca_resident_declined">> }

MarkedDeclineAll(data) == data["decline_all"] = JsonTrue

\* The document selects the category that counter f stands for.
Selects(data, f) ==
  /\ ~MarkedDeclineAll(data)
  /\ \E t \in CategoryCounter : t[3] = f /\ data[t[1]] = t[2]

\* The response rate total_responses / total_founders exceeds one half.
RateExceedsHalf(d) ==
  /\ d["total_founders"] # 0
  /\ 2 * d["total_responses"] * d["total_founders"]
       > d["total_founders"] * d["total_founders"]

DiverseIndicatorSum(d) ==
  d["gender_woman"] + d["gender_nonbinary"] + d["gender_transgender"]
    + d["race_black"] + d["race_asian"] + d["race_hispanic"]
    + d["race_native_american"] + d["race_pacific_islander"]
    + d["lgbtq_yes"] + d["disability_yes"]
    + d["veteran_yes"] + d["veteran_disabled"]

SelectInd(table, company_id) ==
  SelectSeq(table, LAMBDA r : r["company_id"] = company_id)

SubmitSteps == {"s_insert", "s_read", "s_create", "s_update", "s_commit"}

C6_IndeterminateAtOrBelowHalf ==
  cDone =>
     /\ ~RateExceedsHalf(cAgg) => cResult = None
     /\ RateExceedsHalf(cAgg) => cResult \in {0, 1}

\* 2 of 4 founders answered, both diverse: still indeterminate.
C6_Witness ==
  /\ cDone
  /\ cAgg["total_founders"] = 4
  /\ cAgg["total_responses"] = 2
  /\ cAgg["gender_woman"] = 2
  /\ cResult = None

(***************************************************************************)
(* C7. A submission marked decline_all adds one to total_declined_all and  *)
(* to total_responses and leaves every axis counter as it was, also when   *)
(* it carries axis values.                                                 *)
(***************************************************************************)
C7_DeclineAllExclusive ==
  ("AB" \in done /\ MarkedDeclineAll(subA)) =>
     midAB = [prior EXCEPT !["total_responses"] = @ + 1,
                           !["total_declined_all"] = @ + 1]

C7_Witness ==
  /\ "AB" \in done
  /\ MarkedDeclineAll(subA)
  /\ subA["gender"] = "woman"
  /\ prior = BusyRow
  /\ midAB["gender_woman"] = 1
  /\ midAB["total_declined_all"] = 2

C9_OrderIndependent ==
  done = {"AB", "BA"} => \A f \in CountFields : outAB[f] = outBA[f]

C9_Witness ==
  /\ done = {"AB", "BA"}
  /\ MarkedDeclineAll(subA)
  /\ subB["gender"] = "woman"
  /\ midAB # midBA
  /\ outAB = outBA

(***************************************************************************)
(* C1. No increment is lost under concurrent submissions for one company:  *)
(* with k successful submissions, total_responses is k, and every counter  *)
(* holds the number of successful submissions that selected its category.  *)
(***************************************************************************)
CountWhere(docs, Test(_)) == Cardinality({i \in DOMAIN docs : Test(docs[i])})

C1_NoLostIncrement ==
  \A c \in CompanyIds :
    LET rows == SelectAgg(aggregated_responses, c)
    IN \A i \in DOMAIN rows :
         /\ rows[i]["total_responses"] = Len(applied[c])
         /\ rows[i]["total_declined_all"] =
              CountWhere(applied[c], LAMBDA d : MarkedDeclineAll(d))
         /\ \A f \in AxisCounters :
              rows[i][f] = CountWhere(applied[c], LAMBDA d : Selects(d, f))

\* Two submissions for one company are in flight at once: the first has
\* written its counts in its transaction, the second waits to write.
C1_Witness ==
  \E p, q \in Procs : \E c \in CompanyIds :
    /\ p # q
    /\ pc[p] = "s_commit" /\ l_company[p] = c
    /\ pc[q] = "s_insert" /\ l_company[q] = c
    /\ Len(applied[c]) = 0
    /\ Head(SelectAgg(tx_agg[p], c))["total_responses"] = 1
    /\ Head(SelectAgg(aggregated_responses, c))["total_responses"] = 0

(***************************************************************************)
(* C2. A submission is all or nothing: while it runs and when it fails,    *)
(* the committed tables are as they were; when it succeeds, its individual *)
(* response and its counts appear together.                                *)
(***************************************************************************)
C2_AllOrNothing ==
  [][\A p \in Procs :
       (pc[p] \in SubmitSteps /\ pc'[p] # pc[p]) =>
          IF pc'[p] = "idle" /\ errors' = errors
            THEN LET c == l_company[p]
                     before == SelectAgg(aggregated_responses, c)
                     after == SelectAgg(aggregated_responses', c)
                 IN /\ individual_responses' =
                         Append(individual_responses,
                                IndividualRow(c, l_data[p], l_ip[p]))
                    /\ after # <<>>
                    /\ Head(after)["total_responses"] =
                         (IF before = <<>> THEN 0
                          ELSE Head(before)["total_responses"]) + 1
            ELSE /\ individual_responses' = individual_responses
                 /\ aggregated_responses' = aggregated_responses]_vars

\* One submission failed and one succeeded: the tables show the second only.
C2_Witness ==
  /\ errors = 1
  /\ Len(individual_responses) = 1
  /\ \E c \in CompanyIds :
       /\ Len(applied[c]) = 1
       /\ SelectAgg(aggregated_responses, c) # <<>>
       /\ Head(SelectAgg(aggregated_responses, c))["total_responses"] = 1

(***************************************************************************)
(* C3. In every committed state each company's total_responses equals the  *)
(* number of its individual_responses rows and the number of submissions   *)
(* successfully aggregated for it.                                         *)
(***************************************************************************)
C3_TotalEqualsRows ==
  \A c \in CompanyIds :
    LET rows == SelectAgg(aggregated_responses, c)
    IN \A i \in DOMAIN rows :
         /\ rows[i]["total_responses"] = Len(SelectInd(individual_responses, c))
         /\ Len(SelectInd(individual_responses, c)) = Len(applied[c])

\* A company with two stored responses, one of them a decline-all, both
\* counted in its counts record.
C3_Witness ==
  /\ \E c \in CompanyIds :
       /\ Len(SelectInd(individual_responses, c)) = 2
       /\ Len(applied[c]) = 2
       /\ SelectAgg(aggregated_responses, c) # <<>>
       /\ Head(SelectAgg(aggregated_responses, c))["total_declined_all"] = 1

(***************************************************************************)
(* C4. Right after the commit of a successful submission the stored        *)
(* is_primarily_diverse is calculate_diverse_status of the stored counts,  *)
(* which include the submission.                                           *)
(***************************************************************************)
C4_ClassifiedFromUpdatedCounts ==
  [][\A p \in Procs :
       (pc[p] = "s_commit" /\ pc'[p] = "idle" /\ applied' # applied) =>
          LET rows == SelectAgg(aggregated_responses', l_company[p])
          IN /\ rows # <<>>
             /\ \A i \in DOMAIN rows :
                  /\ rows[i]["total_responses"] = Len(applied'[l_company[p]])
                  /\ rows[i]["is_primarily_diverse"] =
                       calculate_diverse_status(rows[i])]_vars

\* The second response of a one-founder company turned its status from
\* not diverse to diverse.
C4_Witness ==
  \E c \in CompanyIds :
    /\ Len(applied[c]) = 2
    /\ MarkedDeclineAll(applied[c][1])
    /\ ~MarkedDeclineAll(applied[c][2])
    /\ SelectAgg(aggregated_responses, c) # <<>>
    /\ Head(SelectAgg(aggregated_responses, c))["total_founders"] = 1
    /\ Head(SelectAgg(aggregated_responses, c))["is_primarily_diverse"] = 1

(***************************************************************************)
(* C10. From one committed state to the next, every axis counter,          *)
(* total_declined_all and total_responses of a counts record that exists   *)
(* in both is non-decreasing.                                              *)
(***************************************************************************)
C10_CountsNonDecreasing ==
  [][\A c \in CompanyIds :
       LET before == SelectAgg(aggregated_responses, c)
           after == SelectAgg(aggregated_responses', c)
       IN (before # <<>> /\ after # <<>>) =>
             \A f \in CountFields : Head(after)[f] >= Head(before)[f]]_vars

\* recalculate_diverse has fetched the rows, a submission has committed
\* since, and the reclassification is about to write.
C10_Witness ==
  \E p \in Procs : \E c \in CompanyIds :
    /\ pc[p] = "r_write"
    /\ \E i \in DOMAIN l_status[p] :
         /\ l_status[p][i].company_id = c
         /\ l_status[p][i].diverse_status = None
    /\ SelectAgg(aggregated_responses, c) # <<>>
    /\ Head(SelectAgg(aggregated_responses, c))["total_responses"] = 1
    /\ Head(SelectAgg(aggregated_responses, c))["total_founders"] = 1

(***************************************************************************)
(* C11. update_founders changes, in the counts record of its company, only *)
(* total_founders and is_primarily_diverse; every counter is unchanged,    *)
(* the stored classification afterwards is calculate_diverse_status of the *)
(* counts with the new total_founders, and nothing else in the database    *)
(* changes.                                                                *)
(***************************************************************************)
C11_UpdateFoundersFrame ==
  [][\A c \in CompanyIds, n \in 0..MaxFounderInput :
       update_founders(c, n) =>
         /\ individual_responses' = individual_responses
         /\ Len(aggregated_responses') = Len(aggregated_responses)
         /\ \A i \in DOMAIN aggregated_responses :
              LET old == aggregated_responses[i]
                  new == aggregated_responses'[i]
              IN IF old["company_id"] = c
                   THEN /\ \A f \in AggFields \ {"total_founders",
                                                 "is_primarily_diverse"} :
                             new[f] = old[f]
                        /\ new["total_founders"] = IF n < 1 THEN 1 ELSE n
                        /\ new["is_primarily_diverse"] =
                             calculate_diverse_status(new)
                   ELSE new = old]_vars

\* A counts row created by a submission after its company was deleted keeps
\* the default total_founders until update_founders writes it: here it has
\* been written, and the classification went from None to 1.
C11_Witness ==
  /\ portfolio_companies = {}
  /\ \E c \in CompanyIds :
       /\ SelectAgg(aggregated_responses, c) # <<>>
       /\ Head(SelectAgg(aggregated_responses, c))["total_founders"] = 1
       /\ Head(SelectAgg(aggregated_responses, c))["total_responses"] = 1
       /\ Head(SelectAgg(aggregated_responses, c))["gender_woman"] = 1
       /\ Head(SelectAgg(aggregated_responses, c))["is_primarily_diverse"] = 1

RECURSIVE Replay(_, _)
Replay(counts, rows) ==
  IF rows = <<>> THEN counts
  ELSE Replay(ApplySubmission(counts,
                decrypt_response(Head(rows)["response_data_encrypted"])),
              Tail(rows))

(***************************************************************************)
(* C13. In every committed state the counters of a company's counts record *)
(* (every per-axis counter, total_declined_all, total_responses) are those *)
(* obtained by folding the aggregation step, from all-zero counters, over  *)
(* the answers of the company's stored individual responses in submission  *)
(* order.                                                                  *)
(***************************************************************************)
C13_CountsRederivable ==
  \A c \in CompanyIds :
    LET rows == SelectAgg(aggregated_responses, c)
        replayed == Replay(NewAggRow(c, 0), SelectInd(individual_responses, c))
    IN \A i \in DOMAIN rows : \A f \in CountFields : rows[i][f] = replayed[f]

\* Two stored responses of one company, the older declining everything (with
\* a gender filled in), the newer a woman: one decline and one woman counted.
C13_Witness ==
  \E c \in CompanyIds :
    LET stored == SelectInd(individual_responses, c)
        rows == SelectAgg(aggregated_responses, c)
    IN /\ Len(stored) = 2
       /\ MarkedDeclineAll(decrypt_response(stored[1]["response_data_encrypted"]))
       /\ decrypt_response(stored[1]["response_data_encrypted"])["gender"] = "woman"
       /\ ~MarkedDeclineAll(decrypt_response(stored[2]["response_data_encrypted"]))
       /\ rows # <<>>
       /\ Head(rows)["gender_woman"] = 1
       /\ Head(rows)["total_declined_all"] = 1
       /\ Head(rows)["total_responses"] = 2

\* The sum of the counters fs of the counts record d.
RECURSIVE SumOver(_, _)
SumOver(d, fs) ==
  IF fs = {} THEN 0
  ELSE LET f == CHOOSE x \in fs : TRUE
       IN d[f] + SumOver(d, fs \ {f})

\* Every counts row in the database: committed, or written inside an open
\* transaction.
AllAggRows ==
  {aggregated_responses[i] : i \in DOMAIN aggregated_responses}
    \cup UNION {{tx_agg[p][i] : i \in DOMAIN tx_agg[p]} : p \in Procs}

(***************************************************************************)
(* C14. In every reachable state, for each of the six axes, the counters   *)
(* of the axis (its declined counter included) sum to at most              *)
(* total_responses minus total_declined_all, hence to at most              *)
(* total_responses.                                                        *)
(***************************************************************************)
C14_AxisSumBounded ==
  \A d \in AllAggRows : \A axis \in Axes :
    /\ SumOver(d, CountersOfAxis(axis))
         <= d["total_responses"] - d["total_declined_all"]
    /\ SumOver(d, CountersOfAxis(axis)) <= d["total_responses"]

\* Two responses, one declining everything and one that answers gender but
\* not disability: the gender counters sum to one, the disability counters
\* to none.
C14_Witness ==
  \E i \in DOMAIN aggregated_responses :
    LET d == aggregated_responses[i]
    IN /\ d["total_responses"] = 2
       /\ d["total_declined_all"] = 1
       /\ SumOver(d, GenderCounters) = 1
       /\ SumOver(d, DisabilityCounters) = 0

\* The counter the category v of the axis stands for moves by one, the other
\* counters of the axis by none.
AxisMove(axis, v, f) ==
  IF <<axis, v, f>> \in CategoryCounter THEN 1 ELSE 0

DeclinedCounter(axis) ==
  CHOOSE f \in CountersOfAxis(axis) : <<axis, "decline", f>> \in CategoryCounter

(***************************************************************************)
(* C15. A document not marked decline_all that carries, for some axis, a   *)
(* value outside the recognized set of the axis is aggregated without      *)
(* error: no counter of that axis moves, every other axis is aggregated as *)
(* usual, and total_responses moves by one.                                *)
(***************************************************************************)
C15_UnrecognizedIgnored ==
  ("AB" \in done /\ ~Truthy(subA["decline_all"])
     /\ \E axis \in Axes : subA[axis] = Unrecognized) =>
    /\ DOMAIN midAB = AggFields
    /\ midAB["total_responses"] = prior["total_responses"] + 1
    /\ midAB["total_declined_all"] = prior["total_declined_all"]
    /\ \A axis \in Axes : \A f \in CountersOfAxis(axis) :
         midAB[f] = IF subA[axis] = Unrecognized
                      THEN prior[f]
                      ELSE prior[f] + AxisMove(axis, subA[axis], f)

\* A document with an unrecognized gender and the race black: black is
\* counted, no gender counter moves.
C15_Witness ==
  /\ "AB" \in done
  /\ subA["gender"] = Unrecognized
  /\ subA["race"] = "black"
  /\ midAB["race_black"] = prior["race_black"] + 1
  /\ \A f \in GenderCounters : midAB[f] = prior[f]
  /\ midAB["total_responses"] = prior["total_responses"] + 1

(***************************************************************************)
(* C16. In a document not marked decline_all, an axis that is absent moves *)
(* no counter of the axis and an explicit "decline" moves the declined     *)
(* counter of the axis by one; two documents that differ only in that one  *)
(* leaves an axis out and the other declines it give different counts.     *)
(***************************************************************************)
C16_AbsentIsNotDecline ==
  /\ ("AB" \in done /\ ~Truthy(subA["decline_all"])) =>
       \A axis \in Axes :
         /\ subA[axis] = Absent =>
              \A f \in CountersOfAxis(axis) : midAB[f] = prior[f]
         /\ subA[axis] = "decline" =>
              \A f \in CountersOfAxis(axis) :
                midAB[f] = prior[f] + (IF f = DeclinedCounter(axis) THEN 1 ELSE 0)
  /\ (done = {"AB", "BA"} /\ ~Truthy(subA["decline_all"])) =>
       \A axis \in Axes :
         (subA[axis] = Absent /\ subB = [subA EXCEPT ![axis] = "decline"]) =>
           /\ midAB # midBA
           /\ midBA[DeclinedCounter(axis)] = midAB[DeclinedCounter(axis)] + 1

\* The empty document and the document that declines the veteran axis,
\* each applied to the same counts.
C16_Witness ==
  /\ done = {"AB", "BA"}
  /\ subA = NoAnswers
  /\ subB = [NoAnswers EXCEPT !["veteran"] = "decline"]
  /\ midAB["veteran_declined"] = prior["veteran_declined"]
  /\ midBA["veteran_declined"] = prior["veteran_declined"] + 1

(***************************************************************************)
(* C17. A submission whose token is the token of no company is answered    *)
(* "Invalid token" (404) and changes nothing: no individual response is    *)
(* inserted, no counts record is created or changed, committed or inside   *)
(* a transaction, and the handler is done.                                 *)
(***************************************************************************)
C17_InvalidTokenNoMutation ==
  [][\A p \in Procs, t \in Tokens, d \in SubmissionPool, ip \in Ips :
       (SubmitResolve(p, t, d, ip) /\ t \notin portfolio_companies) =>
         /\ rejected' = rejected + 1
         /\ errors' = errors
         /\ applied' = applied
         /\ aggregated_responses' = aggregated_responses
         /\ individual_responses' = individual_responses
         /\ portfolio_companies' = portfolio_companies
         /\ tx_agg' = tx_agg
         /\ tx_ind' = tx_ind
         /\ write_lock' = write_lock
         /\ pc'[p] = "idle"]_vars

\* One submission was accepted and stored, another was answered 404.
C17_Witness ==
  /\ rejected = 1
  /\ submits = 2
  /\ errors = 0
  /\ Len(individual_responses) = 1
  /\ \E i \in DOMAIN aggregated_responses :
       aggregated_responses[i]["total_responses"] = 1
  /\ \A p \in Procs : pc[p] = "idle"

\* What recalculate_diverse fetches from the table and computes per row.
StatusesOf(table) ==
  [i \in DOMAIN table |->
     [company_id |-> table[i]["company_id"],
      diverse_status |-> calculate_diverse_status(table[i])]]

(***************************************************************************)
(* C18. recalculate_diverse changes no field of any counts record other    *)
(* than is_primarily_diverse (and nothing else in the database), and a run *)
(* that nothing interrupted leaves a table that a second run would not     *)
(* change.                                                                 *)
(***************************************************************************)
C18_RecalculateIdempotent ==
  [][\A p \in Procs :
       RecalcWrite(p) =>
         /\ individual_responses' = individual_responses
         /\ portfolio_companies' = portfolio_companies
         /\ Len(aggregated_responses') = Len(aggregated_responses)
         /\ \A i \in DOMAIN aggregated_responses :
              \A f \in AggFields \ {"is_primarily_diverse"} :
                aggregated_responses'[i][f] = aggregated_responses[i][f]
         /\ l_status[p] = StatusesOf(aggregated_responses) =>
              /\ \A i \in DOMAIN aggregated_responses :
                   aggregated_responses'[i]["is_primarily_diverse"] =
                     calculate_diverse_status(aggregated_responses[i])
              /\ RecalcUpdates(aggregated_responses',
                               StatusesOf(aggregated_responses'))
                   = aggregated_responses']_vars

\* A recalculation that a submission overtook has written a classification
\* that no longer fits the counts (one response of one founder, stored as
\* None), and a second recalculation has fetched the table and is about to
\* write.
C18_Witness ==
  \E p \in Procs :
    /\ pc[p] = "r_write"
    /\ l_status[p] = StatusesOf(aggregated_responses)
    /\ \E i \in DOMAIN aggregated_responses :
         /\ aggregated_responses[i]["total_responses"] = 1
         /\ aggregated_responses[i]["total_founders"] = 1
         /\ aggregated_responses[i]["is_primarily_diverse"] = None
         /\ l_status[p][i].diverse_status = 1

(***************************************************************************)
(* C19. In every reachable state each company has at most one counts       *)
(* record, in the committed table and inside every open transaction; a     *)
(* company of the portfolio has exactly one (add_company and bulk_upload   *)
(* create it with the company), and submissions that find none create one  *)
(* between them, however they interleave.                                  *)
(***************************************************************************)
C19_OneCountsRecordPerCompany ==
  \A c \in CompanyIds :
    /\ Len(SelectAgg(aggregated_responses, c)) <= 1
    /\ c \in portfolio_companies => Len(SelectAgg(aggregated_responses, c)) = 1
    /\ \A p \in Procs : Len(SelectAgg(tx_agg[p], c)) <= 1

\* Two submissions were under way when their company was deleted; both went
\* on, the first created the counts record, the second found it.
C19_Witness ==
  /\ portfolio_companies = {}
  /\ \E c \in CompanyIds :
       /\ Len(SelectAgg(aggregated_responses, c)) = 1
       /\ Head(SelectAgg(aggregated_responses, c))["total_responses"] = 2
       /\ Head(SelectAgg(aggregated_responses, c))["total_founders"]
            = DefaultTotalFounders
       /\ Len(SelectInd(individual_responses, c)) = 2

\* The handler that holds the write lock is inside the transaction of a
\* submission: it goes on to commit or to fail, and either releases the lock.
LockHolderRuns ==
  write_lock # NoProc => pc[write_lock] \in {"s_read", "s_create", "s_update",
                                             "s_commit"}

\* What the commit of handler p, a submission for company a, does to the
\* committed tables.
CommitTouchesOwnCompanyOnly(p) ==
  LET a == l_company[p]
  IN /\ \A c \in CompanyIds \ {a} :
          /\ SelectAgg(aggregated_responses', c) = SelectAgg(aggregated_responses, c)
          /\ SelectInd(individual_responses', c) = SelectInd(individual_responses, c)
     /\ SelectAgg(aggregated_responses, a) # <<>> =>
          SelectAgg(aggregated_responses', a) =
            UpdateAgg(SelectAgg(aggregated_responses, a), a,
                      UpdatedCounts(Head(SelectAgg(aggregated_responses, a)),
                                    l_data[p]))
     /\ SelectInd(individual_responses', a) =
          Append(SelectInd(individual_responses, a),
                 IndividualRow(a, l_data[p], l_ip[p]))

IsPrefix(s, t) == Len(s) <= Len(t) /\ SubSeq(t, 1, Len(s)) = s

DeleteRemovesCompanyOnly(c) ==
  /\ c \notin portfolio_companies'
  /\ SelectAgg(aggregated_responses', c) = <<>>
  /\ SelectInd(individual_responses', c) = <<>>
  /\ \A d \in CompanyIds \ {c} :
       /\ (d \in portfolio_companies') = (d \in portfolio_companies)
       /\ SelectAgg(aggregated_responses', d) = SelectAgg(aggregated_responses, d)
       /\ SelectInd(individual_responses', d) = SelectInd(individual_responses, d)

NothingDeleted ==
  /\ portfolio_companies \subseteq portfolio_companies'
  /\ \A d \in CompanyIds :
       /\ Len(SelectAgg(aggregated_responses, d))
            <= Len(SelectAgg(aggregated_responses', d))
       /\ IsPrefix(SelectInd(individual_responses, d),
                   SelectInd(individual_responses', d))

C21_DeleteCompanyOnlyDeletes ==
  [][/\ \A c \in CompanyIds : delete_company(c) => DeleteRemovesCompanyOnly(c)
     /\ (~ \E c \in CompanyIds : delete_company(c)) => NothingDeleted]_vars

\* Both companies had a response committed, and company 1 was deleted with
\* its counts record and its response while company 2 kept both.
C21_Witness ==
  /\ portfolio_companies = {2}
  /\ submits = 2 /\ errors = 0 /\ rejected = 0
  /\ \A p \in Procs : pc[p] = "idle"
  /\ Len(individual_responses) = 1
  /\ individual_responses[1]["company_id"] = 2
  /\ Len(aggregated_responses) = 1
  /\ aggregated_responses[1]["company_id"] = 2
  /\ aggregated_responses[1]["total_responses"] = 1

(***************************************************************************)
(* C22. For every response record r, decrypt_response(encrypt_response(r)) *)
(* is r: the payload stored for a submission decrypts to the document that *)
(* was encrypted, with the keys it carried and their values, and with no   *)
(* key it did not carry.                                                   *)
(***************************************************************************)
StoredPayload(written) == written["individual"]["response_data_encrypted"]

NoFounders(company) == company = <<>> \/ company[1]["total_founders"] = 0

\* tenths is a number of tenths nearest to responses / founders * 100.
NearestTenth(tenths, responses, founders) ==
  2 * Abs(tenths * Abs(founders) - 1000 * responses) <= Abs(founders)

RateCellIsQuotient ==
  (eDone /\ ~NoFounders(eRow)) =>
    LET responses == eRow[1]["total_responses"]
        founders == eRow[1]["total_founders"]
        below == (1000 * responses) \div Abs(founders)
    IN \E tenths \in {below, below + 1} :
         /\ NearestTenth(tenths, responses, founders)
         /\ eOut[1]["response_rate"] = TenthsText(founders < 0, tenths)

C23_ResponseRateOneDecimal ==
  /\ RateCellIsQuotient
  /\ (eDone /\ NoFounders(eRow)) => eOut[1]["response_rate"] = "0.0"

\* A company with a counts record of one response and zero founders is
\* exported with the rate "0.0".
C23_Witness ==
  /\ eDone
  /\ eRow # <<>>
  /\ eRow[1]["total_founders"] = 0
  /\ eRow[1]["total_responses"] = 1
  /\ eOut[1]["response_rate"] = "0.0"
  /\ eOut[1]["total_responses"] = 1

\* The claim as stated: the cell is the quotient, and the text "0" for a
\* company whose total_founders is zero or that has no counts record.
C23_ZeroRenderedAsZero ==
  /\ RateCellIsQuotient
  /\ (eDone /\ NoFounders(eRow)) => eOut[1]["response_rate"] = "0"

(***************************************************************************)
(* C24. In every committed state the stored is_primarily_diverse of each   *)
(* counts record is calculate_diverse_status of that record's stored       *)
(* counts and total_founders, however recalculate_diverse, submit_survey   *)
(* and update_founders interleave: no classification computed from an      *)
(* older fetch is written over a newer record.                             *)
(***************************************************************************)
C24_StoredStatusCurrent ==
  \A i \in DOMAIN aggregated_responses :
    aggregated_responses[i]["is_primarily_diverse"] =
      calculate_diverse_status(aggregated_responses[i])

(***************************************************************************)
(* C25. In every committed state there are no orphans: every counts record *)
(* and every individual response refers to a company of the portfolio,     *)
(* however delete_company and the submissions for that company interleave. *)
(***************************************************************************)
C25_NoOrphans ==
  /\ \A i \in DOMAIN aggregated_responses :
       aggregated_responses[i]["company_id"] \in portfolio_companies
  /\ \A i \in DOMAIN individual_responses :
       individual_responses[i]["company_id"] \in portfolio_companies

(***************************************************************************)
(* C26. A company page never shows a partially applied submission: the     *)
(* number of individual responses that company_detail counted equals the   *)
(* total_responses of the counts record it read for the same company,      *)
(* whatever submissions run at the same time.                              *)
(***************************************************************************)
C26_PageCountsAgree ==
  \A p \in Procs :
    (page[p] # <<>> /\ page[p][1]["aggregated"] # <<>>) =>
      page[p][1]["response_count"] =
        page[p][1]["aggregated"][1]["total_responses"]

====
